---- MODULE Spec2Model ----
(***************************************************************************)
(* The chat controller of src/src/App.vue: the transcript `messages`, the  *)
(* input buffer `newMessageContent`, the busy flag `isLoading`, and the    *)
(* async handler `sendMessage`, which suspends at every `for await` step   *)
(* of the response stream returned by apiClient.sendMessage.               *)
(*                                                                         *)
(* Text is a sequence of one-character strings, so that String.trim() is   *)
(* computed rather than assumed.  Date.now() is a clock reading that never *)
(* goes back; Math.random() is one of RandRes equally spaced values of     *)
(* [0,1), and ids are kept in units of 1/RandRes millisecond.              *)
(***************************************************************************)
EXTENDS Naturals, Sequences, FiniteSets

\* messages, newMessageContent, isLoading: the three refs of the component.
\* streams: the response streams that a suspended sendMessage is awaiting, each
\*   with the request's content, the index `base` of its turn's user entry and
\*   the fragments `got` it has yielded so far.
\* now: the last reading of Date.now().
\* requests: the content of every call made to apiClient.sendMessage, in order.
\* returned: the promise returned by the sendMessage call accepted last:
\*   "none" before any, "pending" while it is suspended, then "fulfilled" or
\*   "rejected".
\* lastOp: the step taken last ("accept" and "reject" are the two outcomes of
\*   sendMessage); it is written by every step and read by none.
VARIABLES messages, newMessageContent, isLoading, streams, now, requests,
          returned, lastOp

vars ==
  <<messages, newMessageContent, isLoading, streams, now, requests, returned,
    lastOp>>

(* ------------------------------ bounds --------------------------------- *)

\* longest transcript explored: no entry is pushed onto a transcript this long
MaxMsgs == 3
\* last clock reading (milliseconds since the page was loaded)
MaxClock == 1
\* number of distinct values Math.random() takes in [0,1)
RandRes == 2

(* ------------------------------- text ---------------------------------- *)

Whitespace == {" "}

\* what the user can have typed: empty, blank, plain, and text with leading,
\* trailing, surrounding and inner whitespace
InputTexts ==
  { <<>>, <<" ">>, <<"a">>, <<" ", "a">>, <<"a", " ">>, <<" ", "a", " ">>,
    <<"a", " ", "a">> }

\* content of the fragments the remote service streams back
FragmentTexts == {<<"x">>, <<"y">>}

ErrorText ==
  <<"E","r","r","o","r"," ","r","e","c","e","i","v","i","n","g"," ",
    "m","e","s","s","a","g","e",".">>

RECURSIVE TrimStart(_)
TrimStart(s) ==
  IF s # <<>> /\ Head(s) \in Whitespace THEN TrimStart(Tail(s)) ELSE s

RECURSIVE TrimEnd(_)
TrimEnd(s) ==
  IF s # <<>> /\ s[Len(s)] \in Whitespace
  THEN TrimEnd(SubSeq(s, 1, Len(s) - 1))
  ELSE s

\* a trim of the front only
TrimStartOnly(s) == TrimStart(s)

\* a read of the input that forgets to trim
NoTrim(s) == s

\* String.prototype.trim
Trim(s) == TrimEnd(TrimStart(s))

(* ------------------------------ clock ---------------------------------- *)

\* Date.now(): a reading not before the previous one
ClockReadings == now..MaxClock

\* Math.random(), in units of 1/RandRes
RandomValues == 0..(RandRes - 1)

(* ------------------------- pieces of sendMessage ----------------------- *)

\* a guard that forgets the busy flag
RejectsEmptyOnly(content, loading) == content = <<>>

\* a guard that joins its two tests with "and"
RejectsBoth(content, loading) == content = <<>> /\ loading

\* the early return: empty content, or a send already in flight
Rejects(content, loading) == content = <<>> \/ loading

\* an acceptance that leaves the busy flag as it was
BusyNotSet(loading) == loading

\* isLoading.value = true
BusyOnAccept(loading) == TRUE

\* an acceptance that leaves the typed text in the input
KeepsInput(text) == text

\* newMessageContent.value = ""
ClearedInput(text) == <<>>

\* a call that is made twice
IssueCallTwice(reqs, content) == reqs \o <<content, content>>

\* apiClient.sendMessage({ content }): one call, with the trimmed text
IssueCall(reqs, content) == Append(reqs, content)

\* messages.value.unshift
PushFront(msgs, m) == <<m>> \o msgs

\* messages.value.push
Push(msgs, m) == Append(msgs, m)

\* a user entry created with the status the type also allows
UserMessageSending(t, content) ==
  [id |-> t * RandRes, content |-> content, sender |-> "user",
   status |-> "sending"]

UserMessage(t, content) ==
  [id |-> t * RandRes, content |-> content, sender |-> "user", status |-> "sent"]

ChunkMessage(t, r, content) ==
  [id |-> t * RandRes + r, content |-> content, sender |-> "api",
   status |-> "streaming"]

ErrorMessage(t, r) ==
  [id |-> t * RandRes + r, content |-> ErrorText, sender |-> "api",
   status |-> "failed"]

\* a loop body that grows the bubble of the previous fragment
LoopBodyMerging(msgs, t, r, f) ==
  IF Len(msgs) > 0 /\ msgs[Len(msgs)].status = "streaming"
  THEN [msgs EXCEPT ![Len(msgs)].content = @ \o f]
  ELSE Push(msgs, ChunkMessage(t, r, f))

\* the loop body: one new entry per fragment
LoopBody(msgs, t, r, f) == Push(msgs, ChunkMessage(t, r, f))

\* a completion that never marks anything
NeverMarks(msgs) == msgs

\* a completion that marks every streamed entry
MarkAllSent(msgs) ==
  [k \in DOMAIN msgs |->
     IF msgs[k].status = "streaming" THEN [msgs[k] EXCEPT !.status = "sent"]
     ELSE msgs[k]]

\* a completion that looks for the last api entry instead of the last entry
MarkLastApiSent(msgs) ==
  LET api == {k \in DOMAIN msgs : msgs[k].sender = "api"} IN
  IF api = {} THEN msgs
  ELSE LET last == CHOOSE k \in api : \A j \in api : j <= k
       IN  [msgs EXCEPT ![last].status = "sent"]

\* after the loop: mark the last entry sent when it is an api entry
MarkLastSent(msgs) ==
  IF Len(msgs) > 0 /\ msgs[Len(msgs)].sender = "api"
  THEN [msgs EXCEPT ![Len(msgs)].status = "sent"]
  ELSE msgs

\* a catch block that marks the last streamed entry failed instead
CatchFailsLast(msgs, t, r) ==
  IF Len(msgs) > 0 /\ msgs[Len(msgs)].status = "streaming"
  THEN [msgs EXCEPT ![Len(msgs)].status = "failed"]
  ELSE Push(msgs, ErrorMessage(t, r))

\* the catch block: one synthetic entry
CatchBlock(msgs, t, r) == Push(msgs, ErrorMessage(t, r))

\* a try with finally and no catch: the error goes on to the caller
Rethrows == "rejected"

\* the catch block ends without throwing: the error stops there
AfterCatch == "fulfilled"

\* a reset that only the success path reaches
NoFinally(loading) == loading

\* the finally block's write to isLoading
FinallyLoading(loading) == FALSE

\* the suspended call that a settled stream resumes is dropped
RemoveAt(s, i) == SubSeq(s, 1, i - 1) \o SubSeq(s, i + 1, Len(s))

(* ------------------------------ state ---------------------------------- *)

Init ==
  /\ messages = <<>>
  /\ newMessageContent = <<>>
  /\ isLoading = FALSE
  /\ streams = <<>>
  /\ now = 0
  /\ requests = <<>>
  /\ returned = "none"
  /\ lastOp = "none"

\* v-model: the user edits the input
SetInput ==
  /\ \E text \in InputTexts :
       /\ text # newMessageContent
       /\ newMessageContent' = text
  /\ lastOp' = "input"
  /\ UNCHANGED <<messages, isLoading, streams, now, requests, returned>>

\* sendMessage up to its first suspension: the guard, the user entry, and the
\* outbound call, whose stream is then awaited
sendMessage ==
  LET content == Trim(newMessageContent) IN
  IF Rejects(content, isLoading)
  THEN /\ lastOp' = "reject"
       /\ UNCHANGED <<messages, newMessageContent, isLoading, streams, now,
                      requests, returned>>
  ELSE /\ Len(messages) < MaxMsgs
       /\ isLoading' = BusyOnAccept(isLoading)
       /\ newMessageContent' = ClearedInput(newMessageContent)
       /\ \E t \in ClockReadings :
            /\ now' = t
            /\ messages' = Push(messages, UserMessage(t, content))
       /\ streams' = Append(streams, [content |-> content,
                                      base |-> Len(messages) + 1,
                                      got |-> <<>>])
       /\ requests' = IssueCall(requests, content)
       /\ returned' = "pending"
       /\ lastOp' = "accept"

\* the loop body: stream i yields one fragment
StreamChunk(i) ==
  /\ Len(messages) < MaxMsgs
  /\ \E f \in FragmentTexts, t \in ClockReadings, r \in RandomValues :
       /\ now' = t
       /\ messages' = LoopBody(messages, t, r, f)
       /\ streams' = [streams EXCEPT ![i].got = Append(@, f)]
  /\ lastOp' = "chunk"
  /\ UNCHANGED <<newMessageContent, isLoading, requests, returned>>

\* stream i ends normally: the code after the loop, then finally
StreamEnd(i) ==
  /\ messages' = MarkLastSent(messages)
  /\ isLoading' = FinallyLoading(isLoading)
  /\ streams' = RemoveAt(streams, i)
  /\ returned' = "fulfilled"
  /\ lastOp' = "end"
  /\ UNCHANGED <<newMessageContent, now, requests>>

\* stream i fails: the catch block, then finally
StreamError(i) ==
  /\ Len(messages) < MaxMsgs
  /\ \E t \in ClockReadings, r \in RandomValues :
       /\ now' = t
       /\ messages' = CatchBlock(messages, t, r)
  /\ isLoading' = FinallyLoading(isLoading)
  /\ streams' = RemoveAt(streams, i)
  /\ returned' = AfterCatch
  /\ lastOp' = "error"
  /\ UNCHANGED <<newMessageContent, requests>>

Chunk == \E i \in DOMAIN streams : StreamChunk(i)

End == \E i \in DOMAIN streams : StreamEnd(i)

Error == \E i \in DOMAIN streams : StreamError(i)

Next == SetInput \/ sendMessage \/ Chunk \/ End \/ Error

Spec == Init /\ [][Next]_vars

\* the stream is not left open for ever: it ends or fails
Terminate == End \/ Error

\* Spec, for the runs in which every opened stream eventually terminates
LiveSpec == Spec /\ WF_vars(Terminate)

(* ------------------------- words of the claims ------------------------- *)

\* the step is an invocation of sendMessage
SendStep == lastOp' \in {"accept", "reject"}

IsBlank(s) == \A k \in DOMAIN s : s[k] \in Whitespace

\* c is s without its leading and trailing whitespace
IsTrimOf(c, s) ==
  /\ c # <<>> => (c[1] \notin Whitespace /\ c[Len(c)] \notin Whitespace)
  /\ \E i \in 0..Len(s) :
       /\ i + Len(c) <= Len(s)
       /\ SubSeq(s, i + 1, i + Len(c)) = c
       /\ \A k \in 1..i : s[k] \in Whitespace
       /\ \A k \in (i + Len(c) + 1)..Len(s) : s[k] \in Whitespace

\* after is before with one entry added at the end
AppendsOne(before, after) ==
  /\ Len(after) = Len(before) + 1
  /\ SubSeq(after, 1, Len(before)) = before

\* the entries that follow the user entry of the turn of stream st
TurnEntries(msgs, st) == SubSeq(msgs, st.base + 1, Len(msgs))

(* ------------------------------ claims --------------------------------- *)

\* C1: at most one outbound streaming call is open at any time, whatever the
\* interleaving of sends, fragments, completions and failures.
OneStreamAtATime == Len(streams) <= 1

\* a send with sendable text was refused while a stream that had already
\* delivered a fragment was open
OneStreamWitness ==
  /\ Len(streams) = 1
  /\ streams[1].got # <<>>
  /\ lastOp = "reject"
  /\ ~IsBlank(newMessageContent)

\* C2: once the stream of an accepted send has terminated the busy flag is
\* false, on every exit path; so if every stream terminates, a busy flag that
\* is true becomes false again.
BusyResetOnTermination ==
  /\ [](streams = <<>> => ~isLoading)
  /\ (isLoading ~> ~isLoading)

\* the stream failed after a fragment and the flag is down
BusyResetWitness ==
  /\ lastOp = "error"
  /\ ~isLoading
  /\ Len(messages) = 3
  /\ messages[2].status = "streaming"

\* C3: while a stream is open, the entries after the turn's user entry are
\* exactly the fragments received so far, one entry each, in arrival order,
\* each from the api with the fragment's text and status streaming.
FragmentsOneToOne ==
  \A i \in DOMAIN streams :
    LET turn == TurnEntries(messages, streams[i]) IN
    /\ Len(turn) = Len(streams[i].got)
    /\ \A k \in DOMAIN turn :
         /\ turn[k].sender = "api"
         /\ turn[k].status = "streaming"
         /\ turn[k].content = streams[i].got[k]

\* two different fragments have arrived on the open stream
FragmentsWitness ==
  /\ Len(streams) = 1
  /\ Len(streams[1].got) = 2
  /\ streams[1].got[1] # streams[1].got[2]
  /\ lastOp = "chunk"

\* C4: when a stream that yielded n >= 1 fragments ends normally, the last
\* entry, which is the n-th of the turn, goes from streaming to sent and
\* nothing else changes; and no step ever changes the status of an entry that
\* is not the last one, so the other n-1 stay streaming from then on.
OnlyLastMarkedSent ==
  [][ /\ (/\ lastOp' = "end"
          /\ Len(streams) = 1
          /\ streams[1].got # <<>>)
         => LET n == Len(messages) IN
            /\ n - streams[1].base = Len(streams[1].got)
            /\ messages[n].status = "streaming"
            /\ messages' = [messages EXCEPT ![n].status = "sent"]
      /\ Len(messages') >= Len(messages)
      /\ \A k \in 1..(Len(messages) - 1) :
           messages'[k].status = messages[k].status ]_vars

\* a stream of two fragments has ended: the first is streaming, the second sent
OnlyLastMarkedWitness ==
  /\ lastOp = "end"
  /\ Len(messages) = 3
  /\ messages[2].sender = "api" /\ messages[2].status = "streaming"
  /\ messages[3].sender = "api" /\ messages[3].status = "sent"

\* C5: when the stream fails, one api entry with status failed and the fixed
\* error text is appended after everything else, the entries streamed earlier
\* in the turn are still streaming, nothing else changes, and the busy flag is
\* false.
FailureAppendsOneEntry ==
  [][ (lastOp' = "error" /\ Len(streams) = 1)
        => /\ AppendsOne(messages, messages')
           /\ messages'[Len(messages')].sender = "api"
           /\ messages'[Len(messages')].status = "failed"
           /\ messages'[Len(messages')].content = ErrorText
           /\ \A k \in (streams[1].base + 1)..Len(messages) :
                messages'[k].status = "streaming"
           /\ ~isLoading' ]_vars

\* a failure after one fragment
FailureMidStreamWitness ==
  /\ lastOp = "error"
  /\ Len(messages) >= 3
  /\ messages[Len(messages) - 1].sender = "api"
  /\ messages[Len(messages) - 1].status = "streaming"
  /\ messages[Len(messages)].status = "failed"
  /\ ~isLoading

\* C6: a send from idle with text that is not blank appends one user entry
\* with status sent and the trimmed text, and opens the call after it; the
\* user entry of an open call's turn is followed by api entries only.
UserEntryFirst ==
  [][ /\ (SendStep /\ ~isLoading /\ ~IsBlank(newMessageContent))
         => /\ AppendsOne(messages, messages')
            /\ messages'[Len(messages')].sender = "user"
            /\ messages'[Len(messages')].status = "sent"
            /\ IsTrimOf(messages'[Len(messages')].content, newMessageContent)
            /\ Len(streams') = Len(streams) + 1
            /\ streams'[Len(streams')].base = Len(messages')
      /\ \A i \in DOMAIN streams' :
           LET b == streams'[i].base IN
           /\ b \in DOMAIN messages'
           /\ messages'[b].sender = "user"
           /\ messages'[b].content = streams'[i].content
           /\ \A k \in (b + 1)..Len(messages') : messages'[k].sender = "api"
    ]_vars

\* text with inner whitespace was sent and its user entry is the last entry
UserEntryWitness ==
  /\ lastOp = "accept"
  /\ messages # <<>>
  /\ messages[Len(messages)].sender = "user"
  /\ messages[Len(messages)].content = <<"a", " ", "a">>

\* C7: a send from idle with empty or blank text changes neither the
\* transcript, nor the busy flag, nor the input, and opens no call.
BlankSendIsNoOp ==
  [][ (SendStep /\ ~isLoading /\ IsBlank(newMessageContent))
        => /\ lastOp' = "reject"
           /\ UNCHANGED <<messages, isLoading, newMessageContent, streams>>
    ]_vars

\* a blank, non-empty text was refused from idle
BlankSendWitness ==
  /\ lastOp = "reject"
  /\ ~isLoading
  /\ newMessageContent = <<" ">>

\* C8: a send while busy, with any text, changes neither the transcript, nor
\* the busy flag, nor the input, opens no call and leaves nothing pending.
BusySendIsNoOp ==
  [][ (SendStep /\ isLoading)
        => /\ lastOp' = "reject"
           /\ UNCHANGED <<messages, isLoading, newMessageContent, streams>>
    ]_vars

\* sendable text was refused while busy
BusySendWitness ==
  /\ lastOp = "reject"
  /\ isLoading
  /\ newMessageContent = <<" ", "a">>

\* C9: when a stream ends normally with no fragment, the transcript is left
\* as it is and the busy flag is false.
EmptyStreamChangesNothing ==
  [][ (lastOp' = "end" /\ Len(streams) = 1 /\ streams[1].got = <<>>)
        => (messages' = messages /\ ~isLoading') ]_vars

\* an empty stream has ended in a turn that follows a failed turn
EmptyStreamWitness ==
  /\ lastOp = "end"
  /\ Len(messages) = 3
  /\ messages[2].status = "failed"
  /\ messages[3].sender = "user"
  /\ ~isLoading

\* C10: every step leaves the transcript as it is, appends one entry, or
\* turns the status of a last entry that is an api entry from streaming to
\* sent.
AppendOnly ==
  [][ \/ messages' = messages
      \/ AppendsOne(messages, messages')
      \/ /\ messages # <<>>
         /\ messages[Len(messages)].sender = "api"
         /\ messages[Len(messages)].status = "streaming"
         /\ messages' = [messages EXCEPT ![Len(messages)].status = "sent"]
    ]_vars

\* a completed turn of one fragment
AppendOnlyWitness ==
  /\ lastOp = "end"
  /\ Len(messages) = 2
  /\ messages[2].status = "sent"

\* C11: in every reachable state all entries of the transcript have pairwise
\* distinct ids.
IdsDistinct ==
  \A i, j \in DOMAIN messages : i # j => messages[i].id # messages[j].id

\* C12, as stated: whenever a send has completed (it was refused, or its
\* stream has ended or failed) the busy flag is false, and the input is empty
\* exactly when the send had been accepted.
CompletedSendAsStated ==
  [][ lastOp' \in {"reject", "end", "error"}
        => /\ ~isLoading'
           /\ (newMessageContent' = <<>>) <=> (lastOp' \in {"end", "error"})
    ]_vars

\* C12, amended: an accepted send empties the input and raises the busy flag
\* before it suspends, and the busy flag is false when its stream has ended or
\* failed; a refused send returns with the input and the busy flag as they
\* were.
CompletedSend ==
  [][ /\ lastOp' = "accept" => (newMessageContent' = <<>> /\ isLoading')
      /\ lastOp' \in {"end", "error"} => ~isLoading'
      /\ lastOp' = "reject" => UNCHANGED <<newMessageContent, isLoading>>
    ]_vars

\* a send has run to failure; the input holds what was typed meanwhile
CompletedSendWitness ==
  /\ lastOp = "error"
  /\ ~isLoading
  /\ newMessageContent = <<"a", " ">>

\* C13: from a state in which the busy flag is true, a step that is not the
\* end or the failure of the stream leaves the flag true, accepts no send and
\* adds no user entry.
BusyUntilTermination ==
  [][ (isLoading /\ lastOp' \notin {"end", "error"})
        => /\ isLoading'
           /\ lastOp' # "accept"
           /\ Len(SelectSeq(messages', LAMBDA m : m.sender = "user"))
                = Len(SelectSeq(messages, LAMBDA m : m.sender = "user"))
    ]_vars

\* a stream that has yielded nothing yet is open and a send of plain text was
\* refused
BusyUntilTerminationWitness ==
  /\ isLoading
  /\ Len(streams) = 1
  /\ streams[1].got = <<>>
  /\ lastOp = "reject"
  /\ newMessageContent = <<"a">>

\* C14: the calls made are, in order, one per user entry of the transcript,
\* each with that entry's content; so there are as many calls as accepted
\* sends, a refused send makes none and a failed call is not made again.
OneCallPerAcceptedSend ==
  LET users == SelectSeq(messages, LAMBDA m : m.sender = "user") IN
  /\ Len(requests) = Len(users)
  /\ \A k \in DOMAIN users : requests[k] = users[k].content

\* a second send was accepted after the first call had failed
OneCallWitness ==
  /\ Len(requests) = 2
  /\ Len(messages) = 3
  /\ messages[2].status = "failed"
  /\ lastOp = "accept"

\* C15: the promise that an accepted send returns is never rejected; when the
\* stream fails, that promise is fulfilled, and the failure shows only as one
\* failed entry at the end of the transcript and the busy flag being false:
\* the input and the calls made are as before.
FailureAbsorbed ==
  [][ /\ returned' # "rejected"
      /\ (lastOp' = "error" /\ Len(streams) = 1)
           => /\ returned' = "fulfilled"
              /\ AppendsOne(messages, messages')
              /\ messages'[Len(messages')].status = "failed"
              /\ ~isLoading'
              /\ UNCHANGED <<newMessageContent, requests>>
    ]_vars

\* the call failed before any fragment and the send has returned
FailureAbsorbedWitness ==
  /\ lastOp = "error"
  /\ returned = "fulfilled"
  /\ Len(messages) = 2
  /\ messages[2].status = "failed"
  /\ ~isLoading

\* C16: every user entry has status sent and a content that is not empty and
\* neither starts nor ends with whitespace; every api entry has status
\* streaming, sent or failed; every failed entry is an api entry with the
\* fixed error text; no entry has status sending.
EntriesWellFormed ==
  \A k \in DOMAIN messages :
    LET m == messages[k] IN
    /\ m.sender \in {"user", "api"}
    /\ m.status # "sending"
    /\ m.sender = "user"
         => /\ m.status = "sent"
            /\ m.content # <<>>
            /\ m.content[1] \notin Whitespace
            /\ m.content[Len(m.content)] \notin Whitespace
    /\ m.sender = "api" => m.status \in {"streaming", "sent", "failed"}
    /\ m.status = "failed" => (m.sender = "api" /\ m.content = ErrorText)

\* a failed entry, then a user entry whose text has inner whitespace
EntriesWellFormedWitness ==
  /\ Len(messages) = 3
  /\ messages[2].status = "failed"
  /\ messages[3].sender = "user"
  /\ messages[3].content = <<"a", " ", "a">>

\* C17: a step from a state in which the busy flag is false to a state in
\* which it is false leaves the transcript as it is: the transcript changes
\* only in steps that start or end with the busy flag true.
TranscriptChangesOnlyWhileBusy ==
  [][ (~isLoading /\ ~isLoading') => messages' = messages ]_vars

\* a blank send from idle after a completed turn
OnlyWhileBusyWitness ==
  /\ lastOp = "reject"
  /\ ~isLoading
  /\ Len(messages) = 2
  /\ messages[2].status = "sent"

\* C18: the transcript starts with a user entry, an api entry with status
\* sent or failed is followed by a user entry or by nothing, and when the busy
\* flag is false the last entry is not streaming.
TranscriptOfTurns ==
  /\ messages # <<>> => messages[1].sender = "user"
  /\ \A k \in DOMAIN messages :
       (/\ messages[k].sender = "api"
        /\ messages[k].status \in {"sent", "failed"}
        /\ k < Len(messages))
         => messages[k + 1].sender = "user"
  /\ (~isLoading /\ messages # <<>>)
       => messages[Len(messages)].status # "streaming"

\* a second turn has begun after a turn that ended with a sent entry
TranscriptOfTurnsWitness ==
  /\ Len(messages) = 3
  /\ messages[2].sender = "api" /\ messages[2].status = "sent"
  /\ messages[3].sender = "user"
  /\ isLoading

\* C19: the controller writes the input only when it accepts a send, and then
\* to the empty text: a refused send, a fragment, the end of the stream and
\* its failure leave the input as it is.
InputWrittenOnlyOnAccept ==
  [][ /\ lastOp' = "accept" => newMessageContent' = <<>>
      /\ lastOp' \in {"reject", "chunk", "end", "error"}
           => newMessageContent' = newMessageContent
    ]_vars

\* text typed while the stream was open is there when the stream has ended
InputKeptWitness ==
  /\ lastOp = "end"
  /\ ~isLoading
  /\ newMessageContent = <<"a">>

====
